---- MODULE Spec2Model ----
(***************************************************************************)
(* Interrupt-driven AES-128 CTR pump of the EFM32GG UART bootloader        *)
(* (code/decryption/aes_ctr_128.c): AesCtr128 sets the stream state up and *)
(* submits the first counter block, AES_IRQHandler drains the chunk one    *)
(* block per completion interrupt, AesFinished reads the completion flag.  *)
(*                                                                         *)
(* Data representation.  A byte is 0..255.  A word (uint32_t) is the       *)
(* 4-tuple of its bytes in memory order of the little-endian core, so      *)
(* w[1] is the least significant byte.  A block is a 4-tuple of words;     *)
(* position k of the tuple is C index k-1.  A counter object is the        *)
(* 16-byte sequence the counter function sees through ctr8.                *)
(***************************************************************************)
EXTENDS Integers, Sequences, FiniteSets, TLC

\* ------------------------------------------------------------------ bounds
\* Largest blockNumber a caller passes, and number of chunks of one run.
MaxBlocks == 2
MaxChunks == 3

\* ------------------------------------------------------- program constants
\* uint16_t numberOfBlocks / blockIndex: values are kept modulo 2^16.
U16 == 65536
\* Words per 128-bit block (the loops run i = 3..0, the cursors move by 4).
BlockWords == 4
\* Bytes of the counter object handed to the counter function (ctr8).
CtrBytes == 16
\* A byte holds 0..ByteMax.
ByteMax == 255

Byte == 0..ByteMax

\* ------------------------------------------------------------ bit helpers
\* Bitwise exclusive or of two naturals, bit by bit.
RECURSIVE XorNat(_, _)
XorNat(a, b) ==
  IF a = 0 THEN b
  ELSE IF b = 0 THEN a
  ELSE (((a % 2) + (b % 2)) % 2) + 2 * XorNat(a \div 2, b \div 2)

\* The exclusive or of two 4-bit values, tabulated, and of two bytes.
XorNibble == [a \in 0..15 |-> [b \in 0..15 |-> XorNat(a, b)]]
XorByte(a, b) == 16 * XorNibble[a \div 16][b \div 16] + XorNibble[a % 16][b % 16]

\* The ^ of two uint32_t values.
XorWord(v, w) == [k \in 1..4 |-> XorByte(v[k], w[k])]

XorBlock(x, y) == [k \in 1..BlockWords |-> XorWord(x[k], y[k])]

\* __REV: byte-reverses a 32-bit word.
REV(w) == <<w[4], w[3], w[2], w[1]>>

\* The four uint32_t words of a 16-byte object (the (uint32_t*) cast).
WordsOf(c) == [k \in 1..BlockWords |-> <<c[4*k-3], c[4*k-2], c[4*k-1], c[4*k]>>]

\* ----------------------------------------------------- engine data paths
\* for (i = 3; i >= 0; i--) AES->DATA = __REV(src[i]);
\* the register sequence in write order: first written word first.
\* (WriteBlockAlt: the loop run in ascending index order.)
WriteBlockAlt(b) == <<REV(b[1]), REV(b[2]), REV(b[3]), REV(b[4])>>
WriteBlock(b) == <<REV(b[4]), REV(b[3]), REV(b[2]), REV(b[1])>>

\* for (i = 3; i >= 0; i--) dst[i] = __REV(AES->DATA) ...;
\* the k-th word read from the register lands at C index 4-k.
\* (ReadBlockAlt: the words stored without __REV.)
ReadBlockAlt(d) == <<d[4], d[3], d[2], d[1]>>
ReadBlock(d) == <<REV(d[4]), REV(d[3]), REV(d[2]), REV(d[1])>>

\* ------------------------------------------------------ counter strategy
\* The caller-supplied AES_CtrFuncPtr_TypeDef, applied to the 16 counter
\* bytes in place.  Two strategies: big-endian and little-endian
\* increment by one, both with wraparound.
CtrFuncs == {"IncBE", "IncLE"}

RECURSIVE IncDown(_, _)
IncDown(c, i) ==
  IF i = 0 THEN c
  ELSE IF c[i] = ByteMax THEN IncDown([c EXCEPT ![i] = 0], i - 1)
  ELSE [c EXCEPT ![i] = c[i] + 1]

RECURSIVE IncUp(_, _)
IncUp(c, i) ==
  IF i > CtrBytes THEN c
  ELSE IF c[i] = ByteMax THEN IncUp([c EXCEPT ![i] = 0], i + 1)
  ELSE [c EXCEPT ![i] = c[i] + 1]

ApplyCtrFunc(f, c) == IF f = "IncBE" THEN IncDown(c, CtrBytes) ELSE IncUp(c, 1)

RECURSIVE Advance(_, _, _)
Advance(f, c, n) == IF n = 0 THEN c ELSE Advance(f, ApplyCtrFunc(f, c), n - 1)

\* ---------------------------------------------------------- block engine
\* The AES peripheral is an opaque block transform of the key register and
\* the data register.  "identity" echoes the data register (the end-to-end
\* scenario's engine); "mix" is a key-dependent transform that is neither
\* symmetric in the word order nor in the byte order.
EngineKinds == {"identity", "mix"}

MixWord(s, kw, k) ==
  <<XorByte(s[2], kw[1]), XorByte(s[3], kw[2]), XorByte(s[4], kw[3]),
    (XorByte(s[1], kw[4]) + k) % (ByteMax + 1)>>

Engine(kind, key, data) ==
  IF kind = "identity" THEN data
  ELSE [k \in 1..BlockWords |-> MixWord(data[(k % BlockWords) + 1], key[k], k)]

\* ------------------------------------------------------- caller's objects
\* Key objects, counter objects and data buffers that a caller passes.
KeyIds == {"K0", "K1"}
KeyBytes(k) == IF k = "K0" THEN [j \in 1..CtrBytes |-> 0]
               ELSE [j \in 1..CtrBytes |-> 15 * j + 1]

CtrIds == {"ctrA", "ctrB"}
CtrInit(c) == IF c = "ctrA" THEN [j \in 1..CtrBytes |-> 0]
              ELSE [j \in 1..CtrBytes |-> IF j <= 4 \/ j >= 13 THEN ByteMax ELSE 0]

BufIds == {"A", "B"}
\* A buffer has room for one block more than the largest chunk.
BufWords == BlockWords * (MaxBlocks + 1)
BufInit(b) == IF b = "A" THEN [j \in 1..BufWords |-> <<j, 16 + j, 32 + j, 48 + j>>]
              ELSE [j \in 1..BufWords |-> <<128 + j, 0, ByteMax, j>>]

\* A pointer into a buffer: the buffer and a word offset.  NULL is the value
\* of the zero-initialised statics before the first call.
NULL == [buf |-> "null", off |-> 0]
Ptr(b) == [buf |-> b, off |-> 0]
\* p += n on a uint32_t pointer.
\* (PtrAddOne: the cursor moved by one word whatever n is.)
PtrAddOne(p, n) == [p EXCEPT !.off = p.off + 1]
PtrAdd(p, n) == [p EXCEPT !.off = p.off + n]

\* The (inputData, outputData) pairs of a chunk: separate buffers or in
\* place; and the (key, ctr, ctrFunc, buffers) a caller starts a session
\* with.
IoArgs == {<<"A", "B">>, <<"A", "A">>}
SessionArgs == {<<"K0", "ctrA", "IncBE", <<"A", "B">> >>,
                <<"K1", "ctrB", "IncLE", <<"A", "A">> >>}
BlockNumbers == 0..MaxBlocks

\* What a load through the NULL ctrG of the statics may return where
\* address 0 is readable: the 16 bytes that happen to be there.  Any 16
\* bytes are possible, and the four words are independent of each other.
\* GarbageWords stands for the words: zero, two patterns, and the words at
\* the start of a Cortex-M vector table (initial stack pointer and three
\* handler addresses), which is what the target has at address 0.
\* GarbageBlocks is every block made of these words.
GarbageWords == {<<0, 0, 0, 0>>, <<ByteMax, 1, 2, 3>>,
                 <<ByteMax, ByteMax, ByteMax, ByteMax>>,
                 <<0, 16, 0, 32>>, <<193, 1, 0, 0>>, <<201, 1, 0, 0>>,
                 <<203, 1, 0, 0>>}

GarbageBlocks == [1..BlockWords -> GarbageWords]

\* ------------------------------------------------------------------ state
VARIABLES
  numberOfBlocks, blockIndex, outputDataG, inputDataG, ctrG, ctrFuncG,
  aesFinished,
  AES_CTRL, AES_IEN, NVIC_ISER, AES_IF, AES_KEYH, AES_DATA, AES_RUNNING,
  engineKind,
  mem, ctrMem,
  lastOp, ret, chunk, sess, irqCount, advCalls, subs, chunks,
  pc, call

stream == <<numberOfBlocks, blockIndex, outputDataG, inputDataG, ctrG,
            ctrFuncG, aesFinished>>
engine == <<AES_CTRL, AES_IEN, NVIC_ISER, AES_IF, AES_KEYH, AES_DATA,
            AES_RUNNING, engineKind>>
memory == <<mem, ctrMem>>
history == <<lastOp, ret, chunk, sess, irqCount, advCalls, subs, chunks>>
\* Where the caller stands inside AesCtr128 (the next statement to run, or
\* "idle" outside a call) and the arguments of the call in progress.
caller == <<pc, call>>
vars == <<stream, engine, memory, history, caller>>

ZeroBlock == [k \in 1..BlockWords |-> <<0, 0, 0, 0>>]

NoChunk == [started |-> FALSE, init |-> FALSE, session |-> FALSE,
            blockNumber |-> 0, inBase |-> NULL, outBase |-> NULL,
            ctrArg |-> "null", ctrFuncArg |-> "null",
            ctr0 |-> <<>>, in0 |-> <<>>, out0 |-> <<>>]
NoCall == [key |-> "null", inputData |-> NULL, outputData |-> NULL,
           blockNumber |-> 0, ctr |-> "null", ctrFunc |-> "null",
           initDecryption |-> FALSE, session |-> FALSE]
NoSess == [active |-> FALSE, key |-> "K0", ctr |-> "null", ctrFunc |-> "null",
           c0 |-> <<>>, sizes |-> <<>>]

Init ==
  /\ numberOfBlocks = 0
  /\ blockIndex = 0
  /\ outputDataG = NULL
  /\ inputDataG = NULL
  /\ ctrG = "null"
  /\ ctrFuncG = "null"
  /\ aesFinished = FALSE
  /\ AES_CTRL = FALSE
  /\ AES_IEN = FALSE
  /\ NVIC_ISER = FALSE
  /\ AES_IF = FALSE
  /\ AES_KEYH = ZeroBlock
  /\ AES_DATA = ZeroBlock
  /\ AES_RUNNING = FALSE
  /\ engineKind \in EngineKinds
  /\ mem = [b \in BufIds |-> BufInit(b)]
  /\ ctrMem = [c \in CtrIds |-> CtrInit(c)]
  /\ lastOp = "reset"
  /\ ret = "void"
  /\ chunk = NoChunk
  /\ sess = NoSess
  /\ irqCount = 0
  /\ advCalls = 0
  /\ subs = 0
  /\ chunks = 0
  /\ pc = "idle"
  /\ call = NoCall

\* ------------------------------------------------- AesCtr128 (lines 118-171)
\* if(initDecryption): the session binding, interrupt enable, engine
\* configuration and key load are done on a session's first call only.
\* (SessionSetupAlways: the setup repeated on every call.)
SessionSetupAlways(initDecryption) == TRUE
SessionSetup(initDecryption) == initDecryption

\* aesFinished = false;
\* (InitFinishedStale: the flag left as the previous chunk set it.)
InitFinishedStale(old) == old
InitFinished(old) == FALSE

\* blockIndex = 0;
\* (ResetBlockIndexKeep: the index carried over from the previous chunk.)
ResetBlockIndexKeep(old) == old
ResetBlockIndex(old) == 0

\* numberOfBlocks = blockNumber; a uint32_t stored into a uint16_t.
\* (StoreBlockCountWide: the count kept in full width.)
StoreBlockCountWide(blockNumber) == blockNumber
StoreBlockCount(blockNumber) == blockNumber % U16

\* The words ctrG[3..0] read for the engine submission.  Through a NULL ctrG
\* the load is undefined: it returns any of GarbageBlocks, or it traps (an
\* access fault at the load of ctrG[3], before any DATA write) and the call
\* never returns.
CounterLoads(p, cm) ==
  IF p = "null"
    THEN {[fault |-> FALSE, words |-> g] : g \in GarbageBlocks}
           \cup {[fault |-> TRUE, words |-> ZeroBlock]}
    ELSE {[fault |-> FALSE, words |-> WordsOf(cm[p])]}

\* The program stopped at a trapping load; ret records that the call did
\* not return.
Faulted == ret = "fault"

\* The stores of lines 130-131 and 158-164 stand before the load of ctrG[3]
\* in the source, but the load is not ordered after them: a build may load
\* first.  When the load traps, any of these stores may not have been done
\* yet.
PendingStores == {"inputDataG", "outputDataG", "numberOfBlocks", "blockIndex",
                  "aesFinished"}

AesCtr128(key, inputData, outputData, blockNumber, ctr, ctrFunc, initDecryption) ==
  /\ IF SessionSetup(initDecryption)
       THEN /\ ctrG' = ctr
            /\ ctrFuncG' = ctrFunc
            /\ AES_IF' = FALSE
            /\ AES_IEN' = TRUE
            /\ NVIC_ISER' = TRUE
            /\ AES_CTRL' = TRUE
            /\ AES_KEYH' = WriteBlock(WordsOf(KeyBytes(key)))
       ELSE UNCHANGED <<ctrG, ctrFuncG, AES_IF, AES_IEN, NVIC_ISER, AES_CTRL,
                        AES_KEYH>>
  \* DATASTART: the fourth DATA write starts the engine once it is configured.
  /\ \E ld \in CounterLoads(ctrG', ctrMem) :
       IF ld.fault
         THEN /\ \E done \in SUBSET PendingStores :
                   /\ inputDataG' = IF "inputDataG" \in done
                                      THEN inputData ELSE inputDataG
                   /\ outputDataG' = IF "outputDataG" \in done
                                       THEN outputData ELSE outputDataG
                   /\ numberOfBlocks' = IF "numberOfBlocks" \in done
                                          THEN StoreBlockCount(blockNumber)
                                          ELSE numberOfBlocks
                   /\ blockIndex' = IF "blockIndex" \in done
                                      THEN ResetBlockIndex(blockIndex)
                                      ELSE blockIndex
                   /\ aesFinished' = IF "aesFinished" \in done
                                       THEN InitFinished(aesFinished)
                                       ELSE aesFinished
              /\ UNCHANGED <<AES_DATA, AES_RUNNING>>
              /\ ret' = "fault"
         ELSE /\ inputDataG' = inputData
              /\ outputDataG' = outputData
              /\ numberOfBlocks' = StoreBlockCount(blockNumber)
              /\ blockIndex' = ResetBlockIndex(blockIndex)
              /\ aesFinished' = InitFinished(aesFinished)
              /\ AES_DATA' = WriteBlock(ld.words)
              /\ AES_RUNNING' = AES_CTRL'
              /\ ret' = "void"
  /\ UNCHANGED <<engineKind, mem, ctrMem>>
  /\ lastOp' = "AesCtr128"
  /\ chunk' = [started |-> TRUE, init |-> initDecryption, session |-> AES_CTRL,
               blockNumber |-> blockNumber, inBase |-> inputData,
               outBase |-> outputData, ctrArg |-> ctr, ctrFuncArg |-> ctrFunc,
               ctr0 |-> IF ctrG' = "null" THEN <<>> ELSE ctrMem[ctrG'],
               in0 |-> mem[inputData.buf], out0 |-> mem[outputData.buf]]
  /\ sess' = IF initDecryption
               THEN [active |-> TRUE, key |-> key, ctr |-> ctr,
                     ctrFunc |-> ctrFunc, c0 |-> ctrMem[ctr], sizes |-> <<>>]
               ELSE [sess EXCEPT !.sizes = Append(sess.sizes, chunk.blockNumber)]
  /\ irqCount' = 0
  /\ advCalls' = 0
  /\ subs' = IF AES_RUNNING' THEN 1 ELSE 0
  /\ chunks' = chunks + 1
  /\ UNCHANGED caller

\* --------------------------------------------- the AES peripheral's step
\* A started transform completes: the result replaces the data register and
\* the DONE interrupt flag is raised.
EngineDone ==
  /\ AES_RUNNING
  /\ AES_DATA' = Engine(engineKind, AES_KEYH, AES_DATA)
  /\ AES_RUNNING' = FALSE
  /\ AES_IF' = TRUE
  /\ lastOp' = "EngineDone"
  /\ ret' = "void"
  /\ UNCHANGED <<stream, AES_CTRL, AES_IEN, NVIC_ISER, AES_KEYH, engineKind,
                 memory, chunk, sess, irqCount, advCalls, subs, chunks, caller>>

\* ---------------------------------------------- AES_IRQHandler (lines 51-91)
\* if (blockIndex < numberOfBlocks)
\* (HasMoreBlocksInclusive: the comparison off by one.)
HasMoreBlocksInclusive(bi, n) == bi <= n
HasMoreBlocks(bi, n) == bi < n

\* if (blockIndex < numberOfBlocks) ctrFuncG(ctr8); the counter is advanced
\* only while blocks are left.
\* (CtrAfterIrqAlways: the counter advanced on the last interrupt too, the
\* double update the source comment warns of.)
CtrAfterIrqAlways(more, f, c) == ApplyCtrFunc(f, c)
CtrAfterIrq(more, f, c) == IF more THEN ApplyCtrFunc(f, c) ELSE c

\* The DATA writes of lines 76-80 stand inside the if branch: the handler
\* submits the next counter only while blocks are left.
\* (SubmitsNextAlways: the submission moved out of the if branch;
\* SubmitsNextNever: the submission left out.)
SubmitsNextAlways(more) == TRUE
SubmitsNextNever(more) == FALSE
SubmitsNext(more) == more

\* blockIndex++ on a uint16_t.
NextBlockIndex(bi) == (bi + 1) % U16

\* outputDataG[i] = __REV(AES->DATA) ^ inputDataG[i]; ks is the word read.
\* (CombineNoInput: the keystream stored without the input.)
CombineNoInput(ks, w) == ks
Combine(ks, w) == XorWord(ks, w)

\* for (i = 3; i >= 0; i--) outputDataG[i] = ... ^ inputDataG[i], word by word
\* in loop order; ks[i+1] is the word the loop reads for index i.
\* mem holds the first BufWords words of each buffer; a store past them
\* goes to memory that is not tracked.
Tracked(p, i) == p.off + i + 1 <= BufWords

RECURSIVE StoreLoop(_, _, _, _, _)
StoreLoop(m, outp, inp, ks, i) ==
  IF i < 0 THEN m
  ELSE IF Tracked(outp, i) /\ Tracked(inp, i)
    THEN StoreLoop([m EXCEPT ![outp.buf][outp.off + i + 1] =
                       Combine(ks[i + 1], m[inp.buf][inp.off + i + 1])],
                   outp, inp, ks, i - 1)
    ELSE StoreLoop(m, outp, inp, ks, i - 1)

AES_IRQHandler ==
  /\ AES_IF /\ AES_IEN /\ NVIC_ISER
  /\ ctrMem' = [ctrMem EXCEPT ![ctrG] =
                  CtrAfterIrq(HasMoreBlocks(blockIndex, numberOfBlocks), ctrFuncG, @)]
  /\ advCalls' = IF ctrMem' = ctrMem THEN advCalls ELSE advCalls + 1
  /\ IF HasMoreBlocks(blockIndex, numberOfBlocks)
       THEN /\ mem' = StoreLoop(mem, outputDataG, inputDataG,
                                ReadBlock(AES_DATA), BlockWords - 1)
            /\ outputDataG' = PtrAdd(outputDataG, BlockWords)
            /\ inputDataG' = PtrAdd(inputDataG, BlockWords)
            /\ UNCHANGED aesFinished
       ELSE /\ aesFinished' = TRUE
            /\ UNCHANGED <<mem, outputDataG, inputDataG>>
  /\ IF SubmitsNext(HasMoreBlocks(blockIndex, numberOfBlocks))
       THEN /\ AES_DATA' = WriteBlock(WordsOf(ctrMem'[ctrG]))
            /\ AES_RUNNING' = AES_CTRL
            /\ subs' = IF AES_CTRL THEN subs + 1 ELSE subs
       ELSE UNCHANGED <<AES_DATA, AES_RUNNING, subs>>
  /\ AES_IF' = FALSE
  /\ blockIndex' = NextBlockIndex(blockIndex)
  /\ UNCHANGED <<numberOfBlocks, ctrG, ctrFuncG, AES_CTRL, AES_IEN, NVIC_ISER,
                 AES_KEYH, engineKind, chunk, sess, chunks, caller>>
  /\ lastOp' = "AES_IRQHandler"
  /\ ret' = "void"
  /\ irqCount' = irqCount + 1

\* ------------------------------------------------ AesFinished (lines 177-180)
\* ret is what the step just taken returned: "void", or "true"/"false" for
\* a bool.
BoolRet(b) == IF b THEN "true" ELSE "false"

\* (AesFinishedClearing: a read that clears the flag.)
AesFinishedClearing ==
  /\ ret' = BoolRet(aesFinished)
  /\ aesFinished' = FALSE
  /\ lastOp' = "AesFinished"
  /\ UNCHANGED <<numberOfBlocks, blockIndex, outputDataG, inputDataG, ctrG,
                 ctrFuncG, engine, memory, chunk, sess, irqCount, advCalls,
                 subs, chunks, caller>>
AesFinished ==
  /\ ret' = BoolRet(aesFinished)
  /\ lastOp' = "AesFinished"
  /\ UNCHANGED <<stream, engine, memory, chunk, sess, irqCount, advCalls, subs,
                 chunks, caller>>

\* ------------------------------------------------------------ the caller
\* The caller starts a chunk for the first session or after it has seen the
\* previous chunk finished.
CallerMayStart == ~chunk.started \/ aesFinished

StartSession ==
  /\ chunks < MaxChunks
  /\ CallerMayStart
  /\ \E sa \in SessionArgs, n \in BlockNumbers :
       AesCtr128(sa[1], Ptr(sa[4][1]), Ptr(sa[4][2]), n, sa[2], sa[3], TRUE)

\* A call that continues the session passes either argument tuple, so its
\* key, ctr and ctrFunc arguments are the bound ones or different ones.
StartChunk ==
  /\ chunks < MaxChunks
  /\ aesFinished
  /\ sess.active
  /\ \E sa \in SessionArgs, n \in BlockNumbers :
       AesCtr128(sa[1], Ptr(sa[4][1]), Ptr(sa[4][2]), n, sa[2], sa[3], FALSE)

\* A first call that does not initialise a session.
StartNoSession ==
  /\ ~chunk.started
  /\ \E sa \in SessionArgs, io \in IoArgs, n \in BlockNumbers :
       AesCtr128(sa[1], Ptr(io[1]), Ptr(io[2]), n, sa[2], sa[3], FALSE)

Next ==
  \/ StartSession
  \/ StartChunk
  \/ EngineDone
  \/ AES_IRQHandler
  \/ AesFinished

Spec == Init /\ [][Next]_vars

\* After a trapping load nothing of the program runs any more.
NextNoSession == (~Faulted /\ Next) \/ StartNoSession

SpecNoSession == Init /\ [][NextNoSession]_vars

\* The hardware's side of the contract: a started transform completes, and
\* a pending, enabled DONE interrupt is serviced.
\* The caller's polls change no state the chunk's progress depends on and
\* are left out.
NextLive ==
  \/ StartSession
  \/ StartChunk
  \/ EngineDone
  \/ AES_IRQHandler

SpecLive ==
  Init /\ [][NextLive]_vars /\ WF_vars(EngineDone) /\ WF_vars(AES_IRQHandler)

\* Sessions whose chunks have no block, MaxBlocks blocks, or a count that
\* does not fit the uint16_t numberOfBlocks: 2^16 and 2^16 + 1.
TruncBlockNumbers == {0, MaxBlocks, U16, U16 + 1}

StartSessionTrunc ==
  /\ chunks < MaxChunks
  /\ CallerMayStart
  /\ \E sa \in SessionArgs, n \in TruncBlockNumbers :
       AesCtr128(sa[1], Ptr(sa[4][1]), Ptr(sa[4][2]), n, sa[2], sa[3], TRUE)

StartChunkTrunc ==
  /\ chunks < MaxChunks
  /\ aesFinished
  /\ sess.active
  /\ \E sa \in SessionArgs, n \in TruncBlockNumbers :
       AesCtr128(sa[1], Ptr(sa[4][1]), Ptr(sa[4][2]), n, sa[2], sa[3], FALSE)

NextTrunc ==
  \/ StartSessionTrunc
  \/ StartChunkTrunc
  \/ EngineDone
  \/ AES_IRQHandler

SpecTrunc == Init /\ [][NextTrunc]_vars

\* ------------------------------------- AesCtr128 statement by statement
\* The handler preempts the caller at statement boundaries.  pc names the
\* next statement of the call in progress: "bind" (lines 138-139), "irq"
\* (lines 142-144), "engine" (lines 147-154), "count" (line 158), "index"
\* (line 161), "flag" (line 164), "submit" (lines 167-170); the cursors
\* (lines 130-131) are written on entry.
\* (NextPcSubmitEarly: the engine submission moved in front of the writes of
\* numberOfBlocks, blockIndex and aesFinished.)
NextPcSubmitEarly(p, initDecryption) ==
  CASE p = "cursors" -> IF SessionSetup(initDecryption) THEN "bind" ELSE "submit"
    [] p = "bind" -> "irq"
    [] p = "irq" -> "engine"
    [] p = "engine" -> "submit"
    [] p = "submit" -> "count"
    [] p = "count" -> "index"
    [] p = "index" -> "flag"
    [] OTHER -> "idle"
NextPc(p, initDecryption) ==
  CASE p = "cursors" -> IF SessionSetup(initDecryption) THEN "bind" ELSE "count"
    [] p = "bind" -> "irq"
    [] p = "irq" -> "engine"
    [] p = "engine" -> "count"
    [] p = "count" -> "index"
    [] p = "index" -> "flag"
    [] p = "flag" -> "submit"
    [] OTHER -> "idle"

\* Entry and lines 130-131: inputDataG = inputData; outputDataG = outputData.
CallBegin(key, inputData, outputData, blockNumber, ctr, ctrFunc, initDecryption) ==
  /\ pc = "idle"
  /\ call' = [key |-> key, inputData |-> inputData, outputData |-> outputData,
              blockNumber |-> blockNumber, ctr |-> ctr, ctrFunc |-> ctrFunc,
              initDecryption |-> initDecryption, session |-> AES_CTRL]
  /\ inputDataG' = inputData
  /\ outputDataG' = outputData
  /\ pc' = NextPc("cursors", initDecryption)
  /\ lastOp' = "AesCtr128"
  /\ ret' = "void"
  /\ UNCHANGED <<numberOfBlocks, blockIndex, ctrG, ctrFuncG, aesFinished,
                 engine, memory, chunk, sess, irqCount, advCalls, subs, chunks>>

\* Lines 138-139: ctrG = ctr; ctrFuncG = ctrFunc.
StepBind ==
  /\ pc = "bind"
  /\ ctrG' = call.ctr
  /\ ctrFuncG' = call.ctrFunc
  /\ pc' = NextPc(pc, call.initDecryption)
  /\ UNCHANGED <<numberOfBlocks, blockIndex, outputDataG, inputDataG,
                 aesFinished, engine, memory, history, call>>

\* Lines 142-144: clear and enable the AES interrupt.
StepIrq ==
  /\ pc = "irq"
  /\ AES_IF' = FALSE
  /\ AES_IEN' = TRUE
  /\ NVIC_ISER' = TRUE
  /\ pc' = NextPc(pc, call.initDecryption)
  /\ UNCHANGED <<stream, AES_CTRL, AES_KEYH, AES_DATA, AES_RUNNING, engineKind,
                 memory, history, call>>

\* Lines 147-154: configure the engine and load the key.
StepEngine ==
  /\ pc = "engine"
  /\ AES_CTRL' = TRUE
  /\ AES_KEYH' = WriteBlock(WordsOf(KeyBytes(call.key)))
  /\ pc' = NextPc(pc, call.initDecryption)
  /\ UNCHANGED <<stream, AES_IEN, NVIC_ISER, AES_IF, AES_DATA, AES_RUNNING,
                 engineKind, memory, history, call>>

\* Line 158: numberOfBlocks = blockNumber.
StepCount ==
  /\ pc = "count"
  /\ numberOfBlocks' = StoreBlockCount(call.blockNumber)
  /\ pc' = NextPc(pc, call.initDecryption)
  /\ UNCHANGED <<blockIndex, outputDataG, inputDataG, ctrG, ctrFuncG,
                 aesFinished, engine, memory, history, call>>

\* Line 161: blockIndex = 0.
StepIndex ==
  /\ pc = "index"
  /\ blockIndex' = ResetBlockIndex(blockIndex)
  /\ pc' = NextPc(pc, call.initDecryption)
  /\ UNCHANGED <<numberOfBlocks, outputDataG, inputDataG, ctrG, ctrFuncG,
                 aesFinished, engine, memory, history, call>>

\* Line 164: aesFinished = false.
StepFlag ==
  /\ pc = "flag"
  /\ aesFinished' = InitFinished(aesFinished)
  /\ pc' = NextPc(pc, call.initDecryption)
  /\ UNCHANGED <<numberOfBlocks, blockIndex, outputDataG, inputDataG, ctrG,
                 ctrFuncG, engine, memory, history, call>>

\* Lines 167-170: the DATA writes; the fourth starts the engine.  The new
\* chunk's history starts here.
StepSubmit ==
  /\ pc = "submit"
  /\ \E ld \in CounterLoads(ctrG, ctrMem) :
       IF ld.fault
         THEN /\ UNCHANGED <<AES_DATA, AES_RUNNING, pc>>
              /\ ret' = "fault"
         ELSE /\ AES_DATA' = WriteBlock(ld.words)
              /\ AES_RUNNING' = AES_CTRL
              /\ pc' = NextPc(pc, call.initDecryption)
              /\ ret' = "void"
  /\ chunk' = [started |-> TRUE, init |-> call.initDecryption,
               session |-> call.session, blockNumber |-> call.blockNumber,
               inBase |-> call.inputData, outBase |-> call.outputData,
               ctrArg |-> call.ctr, ctrFuncArg |-> call.ctrFunc,
               ctr0 |-> IF ctrG = "null" THEN <<>> ELSE ctrMem[ctrG],
               in0 |-> mem[call.inputData.buf], out0 |-> mem[call.outputData.buf]]
  /\ sess' = IF call.initDecryption
               THEN [active |-> TRUE, key |-> call.key, ctr |-> call.ctr,
                     ctrFunc |-> call.ctrFunc, c0 |-> ctrMem[call.ctr],
                     sizes |-> <<>>]
               ELSE [sess EXCEPT !.sizes = Append(sess.sizes, chunk.blockNumber)]
  /\ irqCount' = 0
  /\ advCalls' = 0
  /\ subs' = IF AES_RUNNING' THEN 1 ELSE 0
  /\ chunks' = chunks + 1
  /\ UNCHANGED <<stream, AES_CTRL, AES_IEN, NVIC_ISER, AES_IF, AES_KEYH,
                 engineKind, memory, lastOp, call>>

\* The caller of the statement-wise call: as StartSession and StartChunk.
CallSession ==
  /\ chunks < MaxChunks
  /\ CallerMayStart
  /\ \E sa \in SessionArgs, n \in BlockNumbers :
       CallBegin(sa[1], Ptr(sa[4][1]), Ptr(sa[4][2]), n, sa[2], sa[3], TRUE)

CallChunk ==
  /\ chunks < MaxChunks
  /\ aesFinished
  /\ sess.active
  /\ \E sa \in SessionArgs, n \in BlockNumbers :
       CallBegin(sa[1], Ptr(sa[4][1]), Ptr(sa[4][2]), n, sa[2], sa[3], FALSE)

\* The caller polls between calls.
PollIdle == pc = "idle" /\ AesFinished

NextSteps ==
  \/ CallSession
  \/ CallChunk
  \/ StepBind
  \/ StepIrq
  \/ StepEngine
  \/ StepCount
  \/ StepIndex
  \/ StepFlag
  \/ StepSubmit
  \/ EngineDone
  \/ AES_IRQHandler
  \/ PollIdle

SpecSteps == Init /\ [][NextSteps]_vars

\* One session whose only chunk has an ordinary count, the largest count a
\* uint16_t holds, or the smallest count it does not hold.
WideBlockNumbers == {MaxBlocks, U16 - 1, U16}

StartWide ==
  /\ ~chunk.started
  /\ \E n \in WideBlockNumbers :
       AesCtr128("K0", Ptr("A"), Ptr("A"), n, "ctrA", "IncBE", TRUE)

NextWide ==
  \/ StartWide
  \/ EngineDone
  \/ AES_IRQHandler

SpecWide == Init /\ [][NextWide]_vars

\* ================================================================ claims
\* Helpers of the claims' formulas.
RECURSIVE SumSeq(_)
SumSeq(q) == IF q = <<>> THEN 0 ELSE Head(q) + SumSeq(Tail(q))

MinOf(a, b) == IF a < b THEN a ELSE b

\* Block i (0-based) of a word sequence, from word offset off.
BlockAt(words, off, i) == [k \in 1..BlockWords |-> words[off + BlockWords * i + k]]

\* What the handler's read path delivers for counter value c submitted
\* through the write path, under the session's key.
EngineOutput(key, c) ==
  ReadBlock(Engine(engineKind, WriteBlock(WordsOf(KeyBytes(key))),
                   WriteBlock(WordsOf(c))))

\* Blocks of the current chunk the handler has written so far.
BlocksWritten == MinOf(blockIndex, numberOfBlocks)
OutBlock(i) == BlockAt(mem[chunk.outBase.buf], chunk.outBase.off, i)
InBlock0(i) == BlockAt(chunk.in0, chunk.inBase.off, i)

\* C1 (as stated): after exactly blockCount >= 1 serviced completion events
\* isFinished() is true and blockIndex == blockCount.
C1_Original_FinishedAfterBlockCountEvents ==
  (sess.active /\ chunk.blockNumber >= 1 /\ irqCount = chunk.blockNumber)
    => (aesFinished /\ blockIndex = chunk.blockNumber)

\* C1 (amended): after exactly blockCount serviced completion events
\* blockIndex == blockCount and the chunk is not finished yet; finished
\* becomes true exactly at event blockCount + 1, which leaves
\* blockIndex == blockCount + 1 (modulo 2^16); no further event is serviced.
C1_FinishedAfterOneMoreEvent ==
  sess.active =>
    /\ irqCount <= chunk.blockNumber + 1
    /\ blockIndex = irqCount % U16
    /\ (aesFinished <=> (irqCount = chunk.blockNumber + 1))
    /\ (irqCount = chunk.blockNumber) => (~aesFinished /\ (AES_RUNNING \/ AES_IF))

C1_Witness ==
  /\ sess.active /\ chunk.blockNumber >= 2
  /\ irqCount = chunk.blockNumber + 1 /\ aesFinished
  /\ blockIndex = chunk.blockNumber + 1

\* advance applied n times to a counter object's value, for n below 16 * U16.
\* It is computed in runs: a run of `run` steps is 16 runs of run / 16
\* steps, and every intermediate value is computed before the next run
\* starts.
RECURSIVE AdvanceBy(_, _, _, _)
AdvanceBy(f, c, n, run) ==
  IF Len(c) # CtrBytes \/ n = 0 THEN c
  ELSE IF run = 1 THEN AdvanceBy(f, ApplyCtrFunc(f, c), n - 1, 1)
  ELSE IF n >= run
    THEN AdvanceBy(f, AdvanceBy(f, c, run, run \div 16), n - run, run)
    ELSE AdvanceBy(f, c, n, run \div 16)

AdvanceMany(f, c, n) == AdvanceBy(f, c, n, U16)

\* Number of blocks of a buffer that mem holds.
TrackedBlocks == BufWords \div BlockWords

\* Declared block counts of the session's chunks in order, the current one
\* last, and what a uint16_t keeps of each.
RECURSIVE SumMod(_)
SumMod(q) == IF q = <<>> THEN 0 ELSE (Head(q) % U16) + SumMod(Tail(q))

\* C2 (as stated): once a chunk of blockCount blocks has finished, every
\* block i in [0, blockCount) of the output (of those mem holds) equals
\* engineOutput(c_i) XOR input[i], c_i being advance applied i times to the
\* counter value at chunk start.
C2_Original_EveryBlockOfCount ==
  (sess.active /\ aesFinished) =>
    \A i \in 0..(MinOf(chunk.blockNumber, TrackedBlocks) - 1) :
      OutBlock(i) = XorBlock(EngineOutput(sess.key, Advance(ctrFuncG, chunk.ctr0, i)),
                             InBlock0(i))

\* C2 (amended): a chunk started with blockCount processes blockCount mod
\* 2^16 blocks.  Every block i already written, and once the chunk has
\* finished every block i in [0, blockCount mod 2^16), equals
\* engineOutput(c_i) XOR input[i] word-wise, c_i being advance applied i
\* times to the counter value at chunk start; the blocks from
\* blockCount mod 2^16 on are not written.
C2_CtrCombine ==
  sess.active =>
    /\ \A i \in 0..(BlocksWritten - 1) :
         OutBlock(i) = XorBlock(EngineOutput(sess.key, Advance(ctrFuncG, chunk.ctr0, i)),
                                InBlock0(i))
    /\ BlocksWritten <= chunk.blockNumber % U16
    /\ aesFinished => (BlocksWritten = chunk.blockNumber % U16)
    /\ \A i \in (chunk.blockNumber % U16)..(TrackedBlocks - 1) :
         OutBlock(i) = BlockAt(chunk.out0, chunk.outBase.off, i)

\* A chunk of 2^16 + 1 blocks, key-dependent engine, separate buffers: one
\* block written, the second one not.
C2_Witness ==
  /\ sess.active /\ aesFinished /\ chunk.blockNumber = U16 + 1
  /\ numberOfBlocks = 1 /\ BlocksWritten = 1
  /\ engineKind = "mix" /\ chunk.inBase # chunk.outBase
  /\ OutBlock(0) # BlockAt(chunk.out0, chunk.outBase.off, 0)
  /\ OutBlock(0) # InBlock0(0)
  /\ OutBlock(1) = BlockAt(chunk.out0, chunk.outBase.off, 1)

\* C3 (as stated): the counter function is invoked exactly blockCount times
\* between the start call and finished becoming true, never more, and the
\* counter value of a finished chunk is blockCount applications of advance
\* to the value at chunk start.
C3_Original_AdvanceCountOfDeclared ==
  sess.active =>
    /\ advCalls = MinOf(irqCount, chunk.blockNumber)
    /\ ctrMem[ctrG] = Advance(ctrFuncG, chunk.ctr0, advCalls)
    /\ aesFinished => (advCalls = chunk.blockNumber)

\* C3 (amended): for a chunk started with blockCount the counter function
\* is invoked exactly blockCount mod 2^16 times between the start call and
\* finished becoming true, never more, one call per serviced block, and the
\* counter value of a finished chunk is blockCount mod 2^16 applications of
\* advance to the value at chunk start.
C3_AdvanceCount ==
  sess.active =>
    /\ advCalls = MinOf(irqCount, chunk.blockNumber % U16)
    /\ ctrMem[ctrG] = Advance(ctrFuncG, chunk.ctr0, advCalls)
    /\ aesFinished =>
         /\ advCalls = chunk.blockNumber % U16
         /\ ctrMem[ctrG] = Advance(ctrFuncG, chunk.ctr0, chunk.blockNumber % U16)

\* A chunk of 2^16 + 1 blocks: one call; and the counter has moved.
C3_Witness ==
  /\ sess.active /\ aesFinished /\ chunk.blockNumber = U16 + 1
  /\ advCalls = 1 /\ irqCount = 2
  /\ ctrMem[ctrG] = ApplyCtrFunc(ctrFuncG, chunk.ctr0)
  /\ ctrMem[ctrG] # chunk.ctr0

\* C4 (as stated): over the chunks of sizes N1, N2, ... of one session the
\* j-th block of the whole stream is combined with
\* engineOutput(advance^j(c0)), and the counter of a finished chunk is
\* advance^(N1+..+Nk)(c0): the same as one chunk of N1+..+Nk blocks.
C4_Original_ContinuityOfDeclared ==
  sess.active =>
    LET before == SumSeq(sess.sizes) IN
    /\ \A i \in 0..(BlocksWritten - 1) :
         OutBlock(i) =
           XorBlock(EngineOutput(sess.key, AdvanceMany(ctrFuncG, sess.c0, before + i)),
                    InBlock0(i))
    /\ aesFinished =>
         ctrMem[ctrG] = AdvanceMany(ctrFuncG, sess.c0, before + chunk.blockNumber)

\* C4 (amended): each chunk of a session contributes its declared size
\* modulo 2^16: with Mi == Ni mod 2^16, block i of chunk k is the block
\* j = M1+..+M(k-1)+i of the stream and is combined with
\* engineOutput(advance^j(c0)), c0 the session's initial counter, and the
\* counter of a finished chunk is advance^(M1+..+Mk)(c0).  For sizes below
\* 2^16 this is the same as one chunk of N1+..+Nk blocks, as long as that
\* sum is below 2^16.  With the identity engine the block is combined with
\* the counter value itself.
C4_KeystreamContinuity ==
  sess.active =>
    LET before == SumMod(sess.sizes) IN
    /\ \A i \in 0..(BlocksWritten - 1) :
         LET cj == Advance(ctrFuncG, sess.c0, before + i) IN
         /\ OutBlock(i) = XorBlock(EngineOutput(sess.key, cj), InBlock0(i))
         /\ (engineKind = "identity") =>
              OutBlock(i) = XorBlock(WordsOf(cj), InBlock0(i))
    /\ aesFinished =>
         ctrMem[ctrG] =
           Advance(ctrFuncG, sess.c0, before + (chunk.blockNumber % U16))

\* Chunks of 2^16 + 1, 2^16 and 2^16 + 1 blocks, identity engine, zero key,
\* counter 0, big-endian increment: the third chunk's block was combined
\* with counter value 1, not 2^17 + 1.
C4_Witness ==
  /\ sess.active /\ aesFinished
  /\ sess.sizes = <<U16 + 1, U16>> /\ chunk.blockNumber = U16 + 1
  /\ engineKind = "identity" /\ sess.key = "K0" /\ ctrFuncG = "IncBE"
  /\ sess.c0 = [j \in 1..CtrBytes |-> 0]
  /\ OutBlock(0) = XorBlock(WordsOf([j \in 1..CtrBytes |-> IF j = CtrBytes THEN 1 ELSE 0]),
                            InBlock0(0))
  /\ ctrMem[ctrG] = [j \in 1..CtrBytes |-> IF j = CtrBytes THEN 2 ELSE 0]

\* C5: a start call with initDecryption false made after the prior chunk
\* finished loads no key, rewrites neither the engine configuration nor the
\* interrupt enables, leaves the counter value and the session binding
\* alone, and sets the cursors, numberOfBlocks, blockIndex (0) and
\* aesFinished (false) for the new chunk.
C5_ReuseStartFrame ==
  [][(chunks' = chunks + 1 /\ ~chunk'.init /\ sess.active) =>
       /\ UNCHANGED <<AES_KEYH, AES_CTRL, AES_IEN, NVIC_ISER, AES_IF>>
       /\ UNCHANGED <<ctrMem, ctrG, ctrFuncG, mem>>
       /\ inputDataG' = chunk'.inBase
       /\ outputDataG' = chunk'.outBase
       /\ numberOfBlocks' = chunk'.blockNumber % U16
       /\ blockIndex' = 0
       /\ aesFinished' = FALSE]_vars

C5_Witness ==
  /\ lastOp = "AesCtr128" /\ ~chunk.init /\ chunk.session /\ chunks >= 2
  /\ sess.sizes # <<>> /\ ctrMem[ctrG] # sess.c0
  /\ blockIndex = 0 /\ ~aesFinished

\* C6 (as stated): a start call with blockCount == 0 is rejected with
\* InvalidArgument, or isFinished() is true right away, before any completion
\* event is serviced, with zero advance calls.
C6_Original_ZeroBlocksFinishedAtOnce ==
  (sess.active /\ chunk.blockNumber = 0 /\ irqCount = 0)
    => (ret = "InvalidArgument" \/ (aesFinished /\ advCalls = 0))

\* C6 (amended): a start call with blockCount == 0 is not rejected; the chunk
\* is not finished until one completion event has been serviced, and is
\* finished from then on, with zero advance calls, the counter unchanged and
\* no buffer word written.
C6_ZeroBlocksFinishAfterOneEvent ==
  (sess.active /\ chunk.blockNumber = 0) =>
    /\ ret # "InvalidArgument"
    /\ irqCount <= 1
    /\ (aesFinished <=> (irqCount = 1))
    /\ advCalls = 0
    /\ ctrMem[ctrG] = chunk.ctr0
    /\ mem[chunk.inBase.buf] = chunk.in0
    /\ mem[chunk.outBase.buf] = chunk.out0

C6_Witness ==
  /\ sess.active /\ chunk.blockNumber = 0 /\ irqCount = 1 /\ aesFinished
  /\ advCalls = 0

\* C7 (as stated): a first call with initDecryption false fails with
\* SessionNotInitialized, submits nothing to the engine and leaves every
\* field of the stream state as it was.
C7_Claim_SessionNotInitialized ==
  (chunk.started /\ ~chunk.init /\ ~chunk.session) =>
    /\ ret = "SessionNotInitialized"
    /\ numberOfBlocks = 0 /\ blockIndex = 0 /\ ~aesFinished
    /\ inputDataG = NULL /\ outputDataG = NULL
    /\ ctrG = "null" /\ ctrFuncG = "null"
    /\ AES_DATA = ZeroBlock /\ ~AES_RUNNING

\* C8: AesFinished changes no field of the stream state, of the engine or of
\* memory, returns the flag, and consecutive calls return the same value.
C8_PollIsPureRead ==
  [][(lastOp' = "AesFinished") =>
       /\ UNCHANGED <<stream, engine, memory>>
       /\ ret' = BoolRet(aesFinished)
       /\ (lastOp = "AesFinished") => (ret' = ret)]_vars

C8_Witness ==
  /\ lastOp = "AesFinished" /\ ret = "false" /\ ~aesFinished
  /\ irqCount >= 1 /\ chunk.blockNumber >= 2

\* C9: after a start call (any blockCount, 0 included, the previous chunk
\* finished), until the first completion event is serviced aesFinished is
\* false and blockIndex is 0; a poll in between returns false.
C9_NoStaleCompletion ==
  (chunk.started /\ irqCount = 0) =>
    /\ ~aesFinished
    /\ blockIndex = 0
    /\ (lastOp = "AesFinished") => (ret = "false")

C9_Witness ==
  /\ chunks >= 2 /\ irqCount = 0 /\ chunk.blockNumber = 0 /\ ~chunk.init
  /\ lastOp = "AesFinished" /\ ret = "false"

\* C10 (as stated): blockIndex <= numberOfBlocks in every reachable state.
C10_Original_BlockIndexAtMostTotal ==
  0 <= blockIndex /\ blockIndex <= numberOfBlocks

\* C10 (amended): 0 <= blockIndex <= numberOfBlocks + 1, and
\* blockIndex <= numberOfBlocks as long as aesFinished is false.
C10_BlockIndexRange ==
  /\ 0 <= blockIndex
  /\ blockIndex <= numberOfBlocks + 1
  /\ ~aesFinished => (blockIndex <= numberOfBlocks)

C10_Witness ==
  /\ aesFinished /\ numberOfBlocks >= 1 /\ blockIndex = numberOfBlocks + 1

\* C11 (as stated): finished == (blockIndex > totalBlocks) in every state
\* of a chunk, and the finishing invocation leaves
\* blockIndex == totalBlocks + 1.
C11_Original_FinishedIffIndexPastTotal ==
  (chunk.started /\ sess.active) =>
    /\ aesFinished <=> (blockIndex > numberOfBlocks)
    /\ aesFinished => (blockIndex = numberOfBlocks + 1)

\* C11 (amended): the handler sets finished exactly in the invocation that
\* observes blockIndex == totalBlocks on entry (the invocation numbered
\* totalBlocks + 1), and the increment of that invocation leaves
\* blockIndex == (totalBlocks + 1) mod 2^16; so finished ==
\* (blockIndex > totalBlocks) for totalBlocks <= 65534, while for
\* totalBlocks == 65535 blockIndex is 0 when finished is true.
C11_FinishedIffPastTotalMod ==
  (chunk.started /\ sess.active) =>
    /\ blockIndex = irqCount % U16
    /\ aesFinished <=> (irqCount = numberOfBlocks + 1)
    /\ aesFinished => (blockIndex = (numberOfBlocks + 1) % U16)
    /\ (numberOfBlocks < U16 - 1) => (aesFinished <=> (blockIndex > numberOfBlocks))
    /\ (numberOfBlocks = U16 - 1 /\ aesFinished) => (blockIndex = 0)

C11_Witness ==
  /\ chunk.started /\ sess.active /\ aesFinished
  /\ numberOfBlocks = U16 - 1 /\ irqCount = U16 /\ blockIndex = 0

\* C12: while finished is false the input cursor and the output cursor are
\* their chunk bases plus blockIndex blocks of 4 words; in every state the
\* two cursors are the same distance from their bases.
C12_CursorsTrackBlockIndex ==
  (chunk.started /\ sess.active) =>
    /\ inputDataG.buf = chunk.inBase.buf
    /\ outputDataG.buf = chunk.outBase.buf
    /\ ~aesFinished =>
         /\ inputDataG.off = chunk.inBase.off + BlockWords * blockIndex
         /\ outputDataG.off = chunk.outBase.off + BlockWords * blockIndex
    /\ inputDataG.off - chunk.inBase.off = outputDataG.off - chunk.outBase.off

C12_Witness ==
  /\ sess.active /\ ~aesFinished /\ blockIndex = 2
  /\ chunk.inBase.buf # chunk.outBase.buf
  /\ inputDataG.off = 2 * BlockWords /\ outputDataG.off = 2 * BlockWords

\* C13: the counter is changed only by a handler invocation that enters with
\* blockIndex < totalBlocks, and only the bound counter object; the
\* invocation that sets finished and every start call leave all counters
\* unchanged; a start call that continues the session submits, as its first
\* counter, the value the counter has in the finished state it is called in.
C13_CounterChangedOnlyByBlockEvent ==
  [][/\ (ctrMem' # ctrMem) =>
          /\ irqCount' = irqCount + 1
          /\ blockIndex < numberOfBlocks
          /\ \A c \in CtrIds \ {ctrG} : ctrMem'[c] = ctrMem[c]
     /\ (aesFinished' /\ ~aesFinished) => (ctrMem' = ctrMem)
     /\ (chunks' = chunks + 1) => (ctrMem' = ctrMem)
     /\ (chunks' = chunks + 1 /\ ~chunk'.init /\ sess.active) =>
          /\ aesFinished
          /\ AES_RUNNING'
          /\ AES_DATA' = WriteBlock(WordsOf(ctrMem[ctrG]))
          /\ chunk'.ctr0 = ctrMem[ctrG]]_vars

C13_Witness ==
  /\ lastOp = "AesCtr128" /\ ~chunk.init /\ sess.active /\ AES_RUNNING
  /\ SumSeq(sess.sizes) >= 2
  /\ ctrMem[ctrG] = Advance(ctrFuncG, sess.c0, SumSeq(sess.sizes))
  /\ AES_DATA = WriteBlock(WordsOf(ctrMem[ctrG]))

\* C14: the handler invocation that sets finished submits nothing; whenever
\* finished is true the engine neither runs nor has a completion pending,
\* and finished, blockIndex, the cursors, the data register, the counters
\* and the buffers stay as they are until the next start call.
C14_QuiescentWhenFinished ==
  [][/\ aesFinished' => (~AES_RUNNING' /\ ~AES_IF' /\ subs' = irqCount')
     /\ (aesFinished' /\ ~aesFinished) =>
          (subs' = subs /\ AES_DATA' = AES_DATA /\ ctrMem' = ctrMem /\ mem' = mem)
     /\ (aesFinished /\ chunks' = chunks) =>
          UNCHANGED <<stream, engine, memory, irqCount, subs>>]_vars

C14_Witness ==
  /\ sess.active /\ aesFinished /\ chunk.blockNumber >= 2
  /\ lastOp = "AesFinished" /\ ret = "true"
  /\ ~AES_RUNNING /\ ~AES_IF /\ subs = chunk.blockNumber + 1

\* C15: at most one engine submission is outstanding; the start call makes
\* the chunk's first submission and each handler invocation that services a
\* block makes the next one, so the counter in flight after k serviced
\* events is the one of block k; blocks are written in index order: the
\* blocks not yet serviced are as they were at the start call.
C15_StrictAlternation ==
  (chunk.started /\ sess.active) =>
    /\ subs - irqCount \in {0, 1}
    /\ (subs - irqCount = 1) <=> (AES_RUNNING \/ AES_IF)
    /\ ~(AES_RUNNING /\ AES_IF)
    /\ subs = MinOf(irqCount, chunk.blockNumber) + 1
    /\ AES_RUNNING =>
         AES_DATA = WriteBlock(WordsOf(Advance(ctrFuncG, chunk.ctr0, irqCount)))
    /\ \A i \in BlocksWritten..(chunk.blockNumber - 1) :
         OutBlock(i) = BlockAt(chunk.out0, chunk.outBase.off, i)

C15_Witness ==
  /\ sess.active /\ chunk.blockNumber = 2 /\ irqCount = 1 /\ subs = 2
  /\ AES_RUNNING /\ ~AES_IF
  /\ OutBlock(0) # BlockAt(chunk.out0, chunk.outBase.off, 0)
  /\ OutBlock(1) = BlockAt(chunk.out0, chunk.outBase.off, 1)

\* C18: the counter object and the counter function in use are the ones of
\* the most recent start call with initDecryption true; a start call with
\* initDecryption false keeps them whatever its ctr and ctrFunc arguments
\* are and submits the bound counter; the handler advances the bound
\* counter with the bound function and no other counter object.
C18_SessionScopedBinding ==
  [][/\ sess'.active => (ctrG' = sess'.ctr /\ ctrFuncG' = sess'.ctrFunc)
     /\ (chunks' = chunks + 1 /\ ~chunk'.init /\ sess.active) =>
          /\ ctrG' = ctrG /\ ctrFuncG' = ctrFuncG
          /\ sess'.ctr = sess.ctr /\ sess'.ctrFunc = sess.ctrFunc
          /\ AES_DATA' = WriteBlock(WordsOf(ctrMem[sess.ctr]))
          /\ ctrMem' = ctrMem
     /\ (irqCount' = irqCount + 1 /\ sess.active) =>
          /\ \A c \in CtrIds \ {sess.ctr} : ctrMem'[c] = ctrMem[c]
          /\ ctrMem'[sess.ctr] \in
               {ctrMem[sess.ctr], ApplyCtrFunc(sess.ctrFunc, ctrMem[sess.ctr])}
          /\ AES_RUNNING' => (AES_DATA' = WriteBlock(WordsOf(ctrMem'[sess.ctr])))]_vars

C18_Witness ==
  /\ sess.active /\ ~chunk.init /\ aesFinished /\ chunk.blockNumber >= 1
  /\ chunk.ctrArg # ctrG /\ chunk.ctrFuncArg # ctrFuncG
  /\ ctrMem[chunk.ctrArg] = CtrInit(chunk.ctrArg)
  /\ ctrMem[ctrG] = Advance(ctrFuncG, sess.c0, SumSeq(sess.sizes) + chunk.blockNumber)

\* C19: on the submission path (start and handler) register word k, in
\* write order, is counter word 4-k with its bytes reversed; on the read
\* path output word i is the byte-reversed register word 3-i combined with
\* input word i; with an engine that echoes its input, output word i of a
\* block is the submitted counter's word i XOR input word i.
C19_SymmetricEndianness ==
  (chunk.started /\ sess.active) =>
    /\ AES_RUNNING =>
         LET c == ctrMem[ctrG] IN
         AES_DATA = [k \in 1..BlockWords |->
                      [j \in 1..4 |-> c[4 * (BlockWords - k) + (5 - j)]]]
    /\ \A i \in 0..(BlocksWritten - 1) :
         LET ci == Advance(ctrFuncG, chunk.ctr0, i)
             sub == [k \in 1..BlockWords |->
                      [j \in 1..4 |-> ci[4 * (BlockWords - k) + (5 - j)]]]
             res == Engine(engineKind, AES_KEYH, sub)
             inb == InBlock0(i)
         IN /\ OutBlock(i) =
                 [w \in 1..BlockWords |->
                   [j \in 1..4 |->
                     XorByte(res[BlockWords + 1 - w][5 - j], inb[w][j])]]
            /\ (engineKind = "identity") =>
                 OutBlock(i) =
                   [w \in 1..BlockWords |-> XorWord(WordsOf(ci)[w], inb[w])]

\* Identity engine, counter 0, big-endian increment: the second block's
\* word 3 is input word 3 XOR the word whose most significant byte is 1.
C19_Witness ==
  /\ sess.active /\ engineKind = "identity" /\ BlocksWritten >= 2
  /\ ctrFuncG = "IncBE" /\ chunk.ctr0 = [j \in 1..CtrBytes |-> 0]
  /\ OutBlock(1)[4] = XorWord(<<0, 0, 0, 1>>, InBlock0(1)[4])
  /\ OutBlock(1)[4] # XorWord(<<1, 0, 0, 0>>, InBlock0(1)[4])

\* C17: if every started transform completes and every raised completion
\* event is serviced, every start call is followed by a state in which
\* finished is true.
C17_EveryChunkFinishes ==
  (chunk.started /\ ~aesFinished) ~> aesFinished

C17_Witness ==
  /\ sess.active /\ aesFinished /\ ~chunk.init /\ chunks >= 2
  /\ chunk.blockNumber = 2 /\ irqCount = 3 /\ subs = 3

\* C20: numberOfBlocks is the blockNumber argument modulo 2^16 and the chunk
\* services that many blocks; a blockNumber of 65536 finishes at the first
\* completion event with no advance call, the counter and the buffers as
\* they were; blockIndex counts the serviced events modulo 2^16, so for
\* numberOfBlocks == 65535 it is 0 when finished is true.
C20_SixteenBitAccounting ==
  (chunk.started /\ sess.active) =>
    /\ numberOfBlocks = chunk.blockNumber % U16
    /\ irqCount <= numberOfBlocks + 1
    /\ advCalls = MinOf(irqCount, numberOfBlocks)
    /\ aesFinished => (advCalls = chunk.blockNumber % U16)
    /\ blockIndex = irqCount % U16
    /\ (chunk.blockNumber = U16) =>
         /\ aesFinished <=> (irqCount = 1)
         /\ advCalls = 0
         /\ ctrMem[ctrG] = chunk.ctr0
         /\ mem[chunk.inBase.buf] = chunk.in0
         /\ mem[chunk.outBase.buf] = chunk.out0
    /\ (chunk.blockNumber = U16 - 1 /\ aesFinished) =>
         (irqCount = U16 /\ blockIndex = 0)

C20_Witness ==
  /\ sess.active /\ chunk.blockNumber = U16 /\ numberOfBlocks = 0
  /\ aesFinished /\ irqCount = 1 /\ blockIndex = 1 /\ advCalls = 0

\* C16: with the caller starting only for the first session or in a
\* finished state, from start's first write to its engine submission the
\* engine is idle and no completion event is pending, so the handler cannot
\* run inside a start call; the handler runs only outside start calls and
\* only while finished is false, so it writes nothing once the caller can
\* see finished true.
C16_StartHandlerRaceFree ==
  [][/\ (pc = "idle" /\ pc' # "idle") => (~AES_RUNNING /\ ~AES_IF)
     /\ (pc' # "idle") => (~AES_RUNNING' /\ ~AES_IF')
     /\ (pc # "idle" /\ pc' = "idle") => (AES_RUNNING' /\ ~aesFinished' /\ blockIndex' = 0)
     /\ (irqCount' = irqCount + 1) => (pc = "idle" /\ ~aesFinished)
     /\ (AES_IF' /\ ~AES_IF) => (pc = "idle")
     /\ (pc # "idle" \/ pc' # "idle") =>
          (mem' = mem /\ ctrMem' = ctrMem /\ irqCount' \in {irqCount, 0})
     /\ (aesFinished /\ pc = "idle" /\ pc' = "idle") =>
          UNCHANGED <<stream, engine, memory>>]_vars

C16_Witness ==
  /\ pc = "submit" /\ ~call.initDecryption /\ sess.active
  /\ chunk.blockNumber >= 1 /\ irqCount = chunk.blockNumber + 1
  /\ call.blockNumber >= 1 /\ numberOfBlocks = call.blockNumber
  /\ blockIndex = 0 /\ ~aesFinished /\ ~AES_RUNNING /\ ~AES_IF

====
